---- MODULE Spec2Model ----
(***************************************************************************)
(* Verification model of the request authentication gate                   *)
(* (app/middleware/auth_middleware.py, AuthMiddleware.dispatch) and of the *)
(* college administration service (app/services/admin/college_service.py). *)
(*                                                                         *)
(* Python strings are modelled as sequences of one-character strings so    *)
(* that str.startswith, str.split and int() are computed, not assumed.     *)
(* Python values that may have several types are tagged records.           *)
(***************************************************************************)
EXTENDS Integers, Sequences, FiniteSets, TLC

VARIABLES
    method,          \* request.method
    path,            \* request.url.path
    headers,         \* request.headers (only the Authorization key matters)
    pc,              \* position of dispatch: "start", "call_next", "done"
    user,            \* request.state.user, NoUser while never assigned
    response,        \* the response dispatch returned, NoResponse before
    raised,          \* exception that left dispatch, "none" otherwise
    token,           \* argument handed to decode_access_token, NoToken if not called
    decode_calls,    \* number of calls of decode_access_token
    decode_result,   \* what decode_access_token did for this request
    call_next_calls, \* number of calls of call_next
    colleges,        \* rows of the colleges table, a sequence in insertion order
    next_id,         \* autoincrement primary key of the colleges table
    clock,           \* source of College.created_at
    created,         \* history: ids returned by successful create_college calls
    deleted,         \* history: ids for which delete_college returned normally
    last_op          \* outcome of the last service call

gate_vars == <<method, path, headers, pc, user, response, raised, token,
               decode_calls, decode_result, call_next_calls>>
college_vars == <<colleges, next_id, clock, created, deleted, last_op>>
vars == <<method, path, headers, pc, user, response, raised, token,
          decode_calls, decode_result, call_next_calls,
          colleges, next_id, clock, created, deleted, last_op>>

-----------------------------------------------------------------------------
(* Bounds *)

MaxSubLen == 2

MaxColleges == 3

-----------------------------------------------------------------------------
(* Python values *)

PyNone == [type |-> "none"]

PyStr(s) == [type |-> "str", chars |-> s]

PyInt(i) == [type |-> "int", val |-> i]

PyFloat(t) == [type |-> "float", tenths |-> t]

PyBool(b) == [type |-> "bool", truth |-> b]

PyList(l) == [type |-> "list", items |-> l]

-----------------------------------------------------------------------------
(* Strings *)

RECURSIVE StrsUpTo(_, _)
StrsUpTo(alphabet, n) ==
    IF n = 0 THEN {<<>>}
    ELSE LET shorter == StrsUpTo(alphabet, n - 1)
         IN  shorter \cup {Append(s, c) : s \in shorter, c \in alphabet}

\* str.startswith(prefix)
startswith(s, prefix) ==
    /\ Len(prefix) <= Len(s)
    /\ SubSeq(s, 1, Len(prefix)) = prefix

\* str.split(sep, 1): the parts around the first occurrence of sep
split_once(s, sep) ==
    IF \E i \in 1..Len(s) : s[i] = sep
    THEN LET first == CHOOSE i \in 1..Len(s) :
                          /\ s[i] = sep
                          /\ \A j \in 1..(i - 1) : s[j] # sep
         IN  <<SubSeq(s, 1, first - 1), SubSeq(s, first + 1, Len(s))>>
    ELSE <<s>>

PUBLIC_PATHS == <<
    <<"/", "a", "p", "i", "/", "a", "u", "t", "h">>,
    <<"/", "d", "o", "c", "s">>,
    <<"/", "r", "e", "d", "o", "c">>,
    <<"/", "o", "p", "e", "n", "a", "p", "i", ".", "j", "s", "o", "n">>,
    <<"/", "h", "e", "a", "l", "t", "h">> >>

BearerPrefix == <<"B", "e", "a", "r", "e", "r", " ">>

-----------------------------------------------------------------------------
(* Python built-ins used by dispatch *)

\* bool(v) as used by "not v"
truthy(v) ==
    CASE v.type = "none"  -> FALSE
      [] v.type = "str"   -> Len(v.chars) > 0
      [] v.type = "dict"  -> DOMAIN v.entries # {}
      [] v.type = "list"  -> Len(v.items) > 0
      [] v.type = "int"   -> v.val # 0
      [] v.type = "float" -> v.tenths # 0
      [] v.type = "bool"  -> v.truth

Whitespace == {" "}

Digits == {"0", "1", "2", "3", "4", "5", "6", "7", "8", "9"}

DigitVal(c) ==
    CASE c = "0" -> 0 [] c = "1" -> 1 [] c = "2" -> 2 [] c = "3" -> 3
      [] c = "4" -> 4 [] c = "5" -> 5 [] c = "6" -> 6 [] c = "7" -> 7
      [] c = "8" -> 8 [] c = "9" -> 9

RECURSIVE lstrip(_)
lstrip(s) ==
    IF Len(s) > 0 /\ Head(s) \in Whitespace THEN lstrip(Tail(s)) ELSE s

RECURSIVE rstrip(_)
rstrip(s) ==
    IF Len(s) > 0 /\ s[Len(s)] \in Whitespace
    THEN rstrip(SubSeq(s, 1, Len(s) - 1))
    ELSE s

\* the digit part of an int literal: digits, single underscores between them
int_digits_ok(d) ==
    /\ Len(d) > 0
    /\ \A i \in 1..Len(d) : d[i] \in Digits \cup {"_"}
    /\ d[1] \in Digits
    /\ d[Len(d)] \in Digits
    /\ \A i \in 1..(Len(d) - 1) : ~(d[i] = "_" /\ d[i + 1] = "_")

RECURSIVE int_digits_value(_, _)
int_digits_value(d, acc) ==
    IF Len(d) = 0 THEN acc
    ELSE IF Head(d) = "_" THEN int_digits_value(Tail(d), acc)
    ELSE int_digits_value(Tail(d), 10 * acc + DigitVal(Head(d)))

IntOk(n) == [ok |-> TRUE, val |-> n]

IntError(e) == [ok |-> FALSE, error |-> e]

\* int(str)
int_of_str(chars) ==
    LET s      == rstrip(lstrip(chars))
        signed == Len(s) > 0 /\ s[1] \in {"+", "-"}
        d      == IF signed THEN Tail(s) ELSE s
    IN  IF ~int_digits_ok(d) THEN IntError("ValueError")
        ELSE IF signed /\ s[1] = "-" THEN IntOk(0 - int_digits_value(d, 0))
        ELSE IntOk(int_digits_value(d, 0))

\* int(v)
py_int(v) ==
    CASE v.type = "str"   -> int_of_str(v.chars)
      [] v.type = "int"   -> IntOk(v.val)
      [] v.type = "bool"  -> IntOk(IF v.truth THEN 1 ELSE 0)
      [] v.type = "float" -> IntOk(IF v.tenths >= 0 THEN v.tenths \div 10
                                   ELSE 0 - ((0 - v.tenths) \div 10))
      [] OTHER            -> IntError("TypeError")

\* dict.get(key, default)
dict_get(d, key, default) ==
    IF key \in DOMAIN d.entries THEN d.entries[key] ELSE default

\* key in dict
dict_has(d, key) == key \in DOMAIN d.entries

\* request.headers.get(name)
headers_get(h, name) ==
    IF \E p \in h : p[1] = name
    THEN PyStr((CHOOSE p \in h : p[1] = name)[2])
    ELSE PyNone

-----------------------------------------------------------------------------
(* Requests *)

Methods == {"GET", "POST", "OPTIONS"}

Paths == {
    <<"/", "a", "p", "i", "/", "a", "u", "t", "h">>,
    <<"/", "a", "p", "i", "/", "a", "u", "t", "h", "/", "r", "e", "f", "r", "e", "s", "h">>,
    <<"/", "a", "p", "i", "/", "a", "u", "t", "h", "x", "y", "z">>,
    <<"/", "a", "p", "i", "/", "a", "u", "t">>,
    <<"/", "a", "p", "i", "/", "a", "d", "m", "i", "n", "/", "c", "o", "l", "l", "e", "g", "e", "s">>,
    <<"/", "d", "o", "c", "s">>,
    <<"/", "r", "e", "d", "o", "c">>,
    <<"/", "o", "p", "e", "n", "a", "p", "i", ".", "j", "s", "o", "n">>,
    <<"/", "h", "e", "a", "l", "t", "h">>,
    <<"/">>,
    <<"/", "x", "/", "h", "e", "a", "l", "t", "h">> }

AuthorizationValues == {
    <<>>,
    <<"B", "e", "a", "r", "e", "r">>,
    <<"B", "e", "a", "r", "e", "r", " ">>,
    <<"B", "e", "a", "r", "e", "r", " ", "t", "1">>,
    <<"B", "e", "a", "r", "e", "r", " ", "t", " ", "1">>,
    <<"b", "e", "a", "r", "e", "r", " ", "t", "1">>,
    <<"B", "a", "s", "i", "c", " ", "t", "1">>,
    <<" ", "B", "e", "a", "r", "e", "r", " ", "t", "1">> }

HeaderSets == {{}} \cup {{<<"Authorization", v>>} : v \in AuthorizationValues}

-----------------------------------------------------------------------------
(* decode_access_token: returns a claims mapping (or nothing), or raises *)

SubAlphabet == {"4", "2", "7", "a", "-", "_", " "}

Absent == [type |-> "absent"]

SubChoices ==
    {Absent, PyNone, PyInt(42), PyFloat(39), PyBool(TRUE), PyList(<<>>)}
        \cup {PyStr(s) : s \in StrsUpTo(SubAlphabet, MaxSubLen)}

RoleChoices == {Absent, PyNone, PyStr(<<"A", "D", "M", "I", "N">>)}

PermissionsChoices == {Absent, PyList(<<>>), PyList(<<"x">>)}

PyDict(sub, role, permissions) ==
    LET choice == [k \in {"sub", "role", "permissions"} |->
                      CASE k = "sub" -> sub
                        [] k = "role" -> role
                        [] k = "permissions" -> permissions]
    IN  [type |-> "dict",
         entries |-> [k \in {x \in DOMAIN choice : choice[x] # Absent}
                         |-> choice[k]]]

Payloads ==
    {PyNone} \cup {PyDict(s, r, p) : s \in SubChoices, r \in RoleChoices,
                                     p \in PermissionsChoices}

Exceptions == {"JWTError", "ExpiredSignatureError", "RuntimeError"}

DecodeOutcomes ==
    {[kind |-> "raise", exc |-> e] : e \in Exceptions}
        \cup {[kind |-> "return", payload |-> p] : p \in Payloads}

DownstreamStatuses == {200, 401, 404}

-----------------------------------------------------------------------------
(* AuthMiddleware.dispatch *)

NoUser == [type |-> "unset"]

NoResponse == [origin |-> "none"]

NoToken == [type |-> "unset"]

NoDecode == [kind |-> "not_called"]

USER == <<"U", "S", "E", "R">>

\* JSONResponse(status_code=HTTP_401_UNAUTHORIZED, content={"detail": detail})
JSONResponse401(detail) ==
    [origin |-> "gate", status_code |-> 401, detail |-> detail]

\* the same test against a lower-case method name
is_preflight_lowercase(m) == m = "options"

\* method == "OPTIONS"
is_preflight(m) == m = "OPTIONS"

\* exact matching instead of prefix matching
is_public_exact(p) == \E i \in 1..Len(PUBLIC_PATHS) : p = PUBLIC_PATHS[i]

\* any(path.startswith(p) for p in PUBLIC_PATHS)
is_public(p) == \E i \in 1..Len(PUBLIC_PATHS) : startswith(p, PUBLIC_PATHS[i])

\* the presence test alone, the scheme test dropped
credential_missing_presence_only(auth_header) == ~truthy(auth_header)

\* not auth_header or not auth_header.startswith("Bearer ")
credential_missing(auth_header) ==
    \/ ~truthy(auth_header)
    \/ ~startswith(auth_header.chars, BearerPrefix)

\* except Exception
caught_as_Exception(exc) == TRUE

\* except JWTError: the classes the handler catches
caught_as_JWTError(exc) == exc \in {"JWTError", "ExpiredSignatureError"}

\* the emptiness test alone, the subject test dropped
payload_invalid_empty_only(payload) == ~truthy(payload)

\* not payload or "sub" not in payload
payload_invalid(payload) ==
    \/ ~truthy(payload)
    \/ ~dict_has(payload, "sub")

\* a subject that does not parse is replaced by 0
user_context_default_id(payload) ==
    LET id == py_int(dict_get(payload, "sub", PyNone))
    IN  [ok |-> TRUE,
         value |-> [id          |-> IF id.ok THEN id.val ELSE 0,
                    role        |-> dict_get(payload, "role", PyStr(USER)),
                    permissions |-> dict_get(payload, "permissions",
                                             PyList(<<>>))]]

\* payload.get("role") without the "USER" default
user_context_no_role_default(payload) ==
    LET id == py_int(dict_get(payload, "sub", PyNone))
    IN  IF id.ok
        THEN [ok |-> TRUE,
              value |-> [id          |-> id.val,
                         role        |-> dict_get(payload, "role", PyNone),
                         permissions |-> dict_get(payload, "permissions",
                                                  PyList(<<>>))]]
        ELSE [ok |-> FALSE, error |-> id.error]

\* the dict built for request.state.user; int() may raise instead
user_context(payload) ==
    LET id == py_int(dict_get(payload, "sub", PyNone))
    IN  IF id.ok
        THEN [ok |-> TRUE,
              value |-> [id          |-> id.val,
                         role        |-> dict_get(payload, "role", PyStr(USER)),
                         permissions |-> dict_get(payload, "permissions",
                                                  PyList(<<>>))]]
        ELSE [ok |-> FALSE, error |-> id.error]

\* the response is built but the return is missing
Return_fallthrough(resp) ==
    /\ pc' = "call_next"
    /\ response' = resp
    /\ UNCHANGED <<user, raised, call_next_calls>>

\* return <response>
Return(resp) ==
    /\ pc' = "done"
    /\ response' = resp
    /\ UNCHANGED <<user, raised, call_next_calls>>

\* an exception leaves dispatch
Raise(exc) ==
    /\ pc' = "done"
    /\ raised' = exc
    /\ UNCHANGED <<user, response, call_next_calls>>

\* return await call_next(request), up to the await
AwaitCallNext ==
    /\ pc' = "call_next"
    /\ UNCHANGED <<response, raised, call_next_calls>>

NotDecoded == UNCHANGED <<token, decode_calls, decode_result>>

Dispatch ==
    /\ pc = "start"
    /\ UNCHANGED <<method, path, headers>>
    /\ UNCHANGED college_vars
    /\ IF is_preflight(method)
       THEN AwaitCallNext /\ NotDecoded /\ UNCHANGED user
       ELSE IF is_public(path)
       THEN AwaitCallNext /\ NotDecoded /\ UNCHANGED user
       ELSE LET auth_header == headers_get(headers, "Authorization") IN
       IF credential_missing(auth_header)
       THEN Return(JSONResponse401("Authentication required")) /\ NotDecoded
       ELSE LET parts == split_once(auth_header.chars, " ") IN
       IF Len(parts) < 2
       THEN Raise("IndexError") /\ NotDecoded
       ELSE \E outcome \in DecodeOutcomes :
           /\ token' = PyStr(parts[2])
           /\ decode_calls' = decode_calls + 1
           /\ decode_result' = outcome
           /\ IF outcome.kind = "raise"
              THEN IF caught_as_JWTError(outcome.exc)
                   THEN Return(JSONResponse401("Invalid or expired token"))
                   ELSE Raise(outcome.exc)
              ELSE LET payload == outcome.payload IN
              IF payload_invalid(payload)
              THEN Return(JSONResponse401("Invalid token payload"))
              ELSE LET context == user_context(payload) IN
              IF ~context.ok
              THEN Raise(context.error)
              ELSE /\ user' = context.value
                   /\ AwaitCallNext

\* the awaited call_next(request): the downstream handler chain runs once and
\* its response, or its exception, is what dispatch returns
CallNext ==
    /\ pc = "call_next"
    /\ call_next_calls' = call_next_calls + 1
    /\ pc' = "done"
    /\ \/ \E s \in DownstreamStatuses :
            /\ response' = [origin |-> "downstream", status_code |-> s]
            /\ UNCHANGED raised
       \/ /\ raised' = "DownstreamError"
          /\ UNCHANGED response
    /\ UNCHANGED <<method, path, headers, user, token, decode_calls,
                   decode_result>>
    /\ UNCHANGED college_vars

GateInit ==
    /\ method \in Methods
    /\ path \in Paths
    /\ headers \in HeaderSets
    /\ pc = "start"
    /\ user = NoUser
    /\ response = NoResponse
    /\ raised = "none"
    /\ token = NoToken
    /\ decode_calls = 0
    /\ decode_result = NoDecode
    /\ call_next_calls = 0

-----------------------------------------------------------------------------
(* AdminCollegeService *)

Codes == {"C1", "C2", "C3", "C4"}

Names == {"A", "B"}

CollegeCreates == [name : Names, code : Codes]

CollegeIds == 1..(MaxColleges + 1)

NoCollege == [type |-> "none"]

Returned(op, arg, value) ==
    [op |-> op, arg |-> arg, outcome |-> "returned", value |-> value]

HTTPException(op, arg, status_code, detail) ==
    [op |-> op, arg |-> arg, outcome |-> "HTTPException",
     status_code |-> status_code, detail |-> detail]

\* db.scalar(select(College).where(College.code == code)): first row or None
college_by_code(rows, code) ==
    IF \E i \in 1..Len(rows) : rows[i].code = code
    THEN rows[CHOOSE i \in 1..Len(rows) :
                  /\ rows[i].code = code
                  /\ \A j \in 1..(i - 1) : rows[j].code # code]
    ELSE NoCollege

\* get_college: db.scalar(select(College).where(College.id == college_id))
get_college(rows, college_id) ==
    IF \E i \in 1..Len(rows) : rows[i].id = college_id
    THEN rows[CHOOSE i \in 1..Len(rows) : rows[i].id = college_id]
    ELSE NoCollege

\* rows sorted by created_at, newest first
RECURSIVE order_by_created_at_desc(_)
order_by_created_at_desc(rowset) ==
    IF rowset = {} THEN <<>>
    ELSE LET newest == CHOOSE r \in rowset :
                           \A q \in rowset : q.created_at <= r.created_at
         IN  <<newest>> \o order_by_created_at_desc(rowset \ {newest})

\* list_colleges: select(College).where(is_active is True)
\*                .order_by(created_at.desc())
list_colleges(rows) ==
    order_by_created_at_desc(
        {rows[i] : i \in {j \in 1..Len(rows) : rows[j].is_active}})

create_college(payload) ==
    /\ UNCHANGED gate_vars
    /\ LET existing == college_by_code(colleges, payload.code) IN
       IF existing # NoCollege
       THEN /\ last_op' = HTTPException("create_college", payload.code, 400,
                              "College with this code already exists")
            /\ UNCHANGED <<colleges, next_id, clock, created, deleted>>
       ELSE /\ Len(colleges) < MaxColleges
            /\ LET college == [id         |-> next_id,
                               name       |-> payload.name,
                               code       |-> payload.code,
                               is_active  |-> TRUE,
                               created_at |-> clock]
               IN  /\ colleges' = Append(colleges, college)
                   /\ last_op' = Returned("create_college", payload.code,
                                          college.id)
                   /\ created' = created \cup {college.id}
            /\ next_id' = next_id + 1
            /\ clock' = clock + 1
            /\ UNCHANGED deleted

\* a hard delete: the row is removed
delete_college_hard(college_id) ==
    /\ UNCHANGED gate_vars
    /\ LET college == get_college(colleges, college_id) IN
       IF college = NoCollege \/ ~college.is_active
       THEN /\ last_op' = HTTPException("delete_college", college_id, 404,
                              "College not found")
            /\ UNCHANGED <<colleges, next_id, clock, created, deleted>>
       ELSE /\ colleges' = SelectSeq(colleges,
                               LAMBDA row : row.id # college_id)
            /\ last_op' = Returned("delete_college", college_id, 0)
            /\ deleted' = deleted \cup {college_id}
            /\ UNCHANGED <<next_id, clock, created>>

delete_college(college_id) ==
    /\ UNCHANGED gate_vars
    /\ LET college == get_college(colleges, college_id) IN
       IF college = NoCollege \/ ~college.is_active
       THEN /\ last_op' = HTTPException("delete_college", college_id, 404,
                              "College not found")
            /\ UNCHANGED <<colleges, next_id, clock, created, deleted>>
       ELSE /\ colleges' = [i \in 1..Len(colleges) |->
                               IF colleges[i].id = college_id
                               THEN [colleges[i] EXCEPT !.is_active = FALSE]
                               ELSE colleges[i]]
            /\ last_op' = Returned("delete_college", college_id, 0)
            /\ deleted' = deleted \cup {college_id}
            /\ UNCHANGED <<next_id, clock, created>>

CollegeInit ==
    /\ colleges = <<>>
    /\ next_id = 1
    /\ clock = 1
    /\ created = {}
    /\ deleted = {}
    /\ last_op = [op |-> "none"]

-----------------------------------------------------------------------------
(* Specifications *)

\* one request through the gate
Init == GateInit /\ CollegeInit

Next == Dispatch \/ CallNext

Spec == Init /\ [][Next]_vars

\* calls of the college service on one database
CollegeIdle ==
    /\ method = "GET"
    /\ path = <<"/">>
    /\ headers = {}
    /\ pc = "done"
    /\ user = NoUser
    /\ response = NoResponse
    /\ raised = "none"
    /\ token = NoToken
    /\ decode_calls = 0
    /\ decode_result = NoDecode
    /\ call_next_calls = 0

InitCollege == CollegeIdle /\ CollegeInit

NextCollege ==
    \/ \E payload \in CollegeCreates : create_college(payload)
    \/ \E college_id \in CollegeIds : delete_college(college_id)

SpecCollege == InitCollege /\ [][NextCollege]_vars

-----------------------------------------------------------------------------
(* The request as the claims describe it *)

UnderPublicPrefix ==
    \E i \in 1..Len(PUBLIC_PATHS) :
        /\ Len(path) >= Len(PUBLIC_PATHS[i])
        /\ \A k \in 1..Len(PUBLIC_PATHS[i]) : path[k] = PUBLIC_PATHS[i][k]

Protected == method # "OPTIONS" /\ ~UnderPublicPrefix

HasBearerCredential ==
    \E h \in headers :
        /\ h[1] = "Authorization"
        /\ Len(h[2]) >= 7
        /\ SubSeq(h[2], 1, 7) = <<"B", "e", "a", "r", "e", "r", " ">>

GateMessages ==
    {"Authentication required", "Invalid or expired token",
     "Invalid token payload"}

Rejected(detail) ==
    /\ pc = "done"
    /\ response = [origin |-> "gate", status_code |-> 401, detail |-> detail]
    /\ raised = "none"

\* forwarded without identity: the handler chain is or has been called, the
\* verification primitive was not, and the gate produced no response
ForwardedAnonymous ==
    /\ user = NoUser
    /\ decode_calls = 0
    /\ token = NoToken
    /\ response.origin # "gate"
    /\ \/ pc = "call_next" /\ call_next_calls = 0
       \/ pc = "done" /\ call_next_calls = 1

Decoded == decode_result.kind = "return"

DecodeRaised == decode_result.kind = "raise"

JWTErrorClasses == {"JWTError", "ExpiredSignatureError"}

ClaimsLackSubject ==
    /\ Decoded
    /\ \/ decode_result.payload = PyNone
       \/ /\ decode_result.payload # PyNone
          /\ "sub" \notin DOMAIN decode_result.payload.entries

SubjectClaim == decode_result.payload.entries["sub"]

ClaimsHaveSubject ==
    /\ Decoded
    /\ decode_result.payload # PyNone
    /\ "sub" \in DOMAIN decode_result.payload.entries

-----------------------------------------------------------------------------
(* Claims *)

\* C1: a protected request whose Authorization header is absent, empty or
\* does not start with "Bearer " is answered 401 "Authentication required";
\* the verification primitive is not called, no identity is attached and the
\* downstream handler is not called.
C1_MissingCredentialRejected ==
    (pc # "start" /\ Protected /\ ~HasBearerCredential)
        => /\ Rejected("Authentication required")
           /\ decode_calls = 0
           /\ token = NoToken
           /\ user = NoUser
           /\ call_next_calls = 0

C1_Witness ==
    /\ pc = "done"
    /\ Protected
    /\ headers = {<<"Authorization", <<"B", "a", "s", "i", "c", " ", "t", "1">>>>}
    /\ response.origin = "gate"

\* C2: for a protected request with a "Bearer " credential the answer is 401
\* "Invalid or expired token" exactly when decode_access_token raised a
\* JWTError; any other error it raises leaves the gate as that error and not as
\* a 401; in both cases no identity is attached and the downstream handler is
\* not called.
C2_OnlyJWTErrorBecomes401 ==
    (pc # "start" /\ Protected /\ HasBearerCredential)
        => /\ Rejected("Invalid or expired token")
                <=> (DecodeRaised /\ decode_result.exc \in JWTErrorClasses)
           /\ (DecodeRaised /\ decode_result.exc \notin JWTErrorClasses)
                => /\ pc = "done"
                   /\ raised = decode_result.exc
                   /\ response = NoResponse
           /\ DecodeRaised => (user = NoUser /\ call_next_calls = 0)

C2_Witness ==
    /\ pc = "done"
    /\ Protected
    /\ decode_result = [kind |-> "raise", exc |-> "RuntimeError"]
    /\ raised = "RuntimeError"

\* C3: a request whose path starts with an entry of PUBLIC_PATHS is forwarded
\* without identity for every method and every Authorization value, the gate
\* never answers it with a 401 and never evaluates the credential checks.
C3_PublicPrefixForwarded ==
    (pc # "start" /\ UnderPublicPrefix) => ForwardedAnonymous

C3_Witness ==
    /\ pc = "done"
    /\ method = "POST"
    /\ path = <<"/", "a", "p", "i", "/", "a", "u", "t", "h", "x", "y", "z">>
    /\ headers = {<<"Authorization", <<"B", "a", "s", "i", "c", " ", "t", "1">>>>}
    /\ call_next_calls = 1

\* C4: an OPTIONS request is forwarded without identity whatever its path and
\* headers, and the gate never answers it with a 401.
C4_PreflightForwarded ==
    (pc # "start" /\ method = "OPTIONS") => ForwardedAnonymous

C4_Witness ==
    /\ pc = "done"
    /\ method = "OPTIONS"
    /\ ~UnderPublicPrefix
    /\ headers = {}
    /\ call_next_calls = 1

\* C5: when the token decoded without error and the claims are None, empty or
\* have no "sub" key, the answer is 401 "Invalid token payload", no identity is
\* attached and the downstream handler is not called.
C5_ClaimsWithoutSubjectRejected ==
    ClaimsLackSubject
        => /\ Rejected("Invalid token payload")
           /\ user = NoUser
           /\ call_next_calls = 0

C5_Witness ==
    /\ pc = "done"
    /\ Decoded
    /\ decode_result.payload # PyNone
    /\ DOMAIN decode_result.payload.entries = {"role", "permissions"}
    /\ response.origin = "gate"

\* C6: every failure of the gate itself on a protected request (that is, every
\* protected request that ends without the downstream handler having been
\* called, other than by a non-JWTError failure of the verification primitive)
\* ends in a 401 response carrying one of the three fixed messages.
C6_EveryGateFailureIs401 ==
    (/\ pc = "done"
     /\ Protected
     /\ call_next_calls = 0
     /\ ~(DecodeRaised /\ decode_result.exc \notin JWTErrorClasses))
        => \E m \in GateMessages : Rejected(m)

\* C7: an identity is attached only to a protected request that passed the
\* credential, verification and claims checks, and its id is then the integer
\* parsed from the subject claim; when the subject claim is missing or does not
\* parse as an integer there is no identity, no default id, and the downstream
\* handler is not called.
C7_IdentityOnlyFromValidSubject ==
    /\ user # NoUser
        => /\ Protected
           /\ HasBearerCredential
           /\ ClaimsHaveSubject
           /\ py_int(SubjectClaim).ok
           /\ user.id = py_int(SubjectClaim).val
    /\ (ClaimsLackSubject \/ (ClaimsHaveSubject /\ ~py_int(SubjectClaim).ok))
        => /\ user = NoUser
           /\ call_next_calls = 0
           /\ pc = "done"

C7_Witness ==
    /\ pc = "done"
    /\ ClaimsHaveSubject
    /\ SubjectClaim = PyStr(<<"a">>)
    /\ user = NoUser
    /\ call_next_calls = 0

\* C8: the downstream handler is called exactly once when the gate proceeds and
\* never when it rejects; the identity of an authenticated request is attached
\* before the handler is called; no step leaves a rejected request.
C8_ProceedState ==
    /\ call_next_calls \in {0, 1}
    /\ (pc = "done" /\ response.origin = "gate") => call_next_calls = 0
    /\ (pc = "done" /\ (method = "OPTIONS" \/ UnderPublicPrefix
                        \/ user # NoUser))
            => call_next_calls = 1

C8_ProceedStep ==
    /\ call_next_calls' # call_next_calls
        => /\ call_next_calls' = call_next_calls + 1
           /\ user' = user
           /\ Protected => user # NoUser
    /\ ~(pc = "done" /\ response.origin = "gate")

C8_HandlerCalledOncePerProceed ==
    [](C8_ProceedState) /\ [][C8_ProceedStep]_vars

C8_Witness ==
    /\ pc = "done"
    /\ Protected
    /\ user # NoUser
    /\ call_next_calls = 1

\* C9: for a protected request whose claims carry a subject that parses as an
\* integer, the identity has that integer as id, the claims' role or "USER",
\* and the claims' permissions or the empty sequence; {"sub": "42", "role":
\* "ADMIN", "permissions": ["x"]} gives (42, "ADMIN", ["x"]) and {"sub": "7"}
\* gives (7, "USER", []).
C9_IdentityFromClaims ==
    (pc # "start" /\ Protected /\ ClaimsHaveSubject
     /\ py_int(SubjectClaim).ok)
        => LET entries == decode_result.payload.entries IN
           /\ user # NoUser
           /\ user.id = py_int(SubjectClaim).val
           /\ user.role = IF "role" \in DOMAIN entries THEN entries["role"]
                          ELSE PyStr(<<"U", "S", "E", "R">>)
           /\ user.permissions = IF "permissions" \in DOMAIN entries
                                 THEN entries["permissions"]
                                 ELSE PyList(<<>>)
           /\ decode_result.payload
                  = PyDict(PyStr(<<"4", "2">>), PyStr(<<"A", "D", "M", "I", "N">>),
                           PyList(<<"x">>))
                => user = [id |-> 42, role |-> PyStr(<<"A", "D", "M", "I", "N">>),
                           permissions |-> PyList(<<"x">>)]
           /\ decode_result.payload = PyDict(PyStr(<<"7">>), Absent, Absent)
                => user = [id |-> 7, role |-> PyStr(<<"U", "S", "E", "R">>),
                           permissions |-> PyList(<<>>)]

C9_Witness ==
    /\ pc = "done"
    /\ decode_result.kind = "return"
    /\ decode_result.payload = PyDict(PyStr(<<"7">>), Absent, Absent)
    /\ user # NoUser
    /\ user.id = 7
    /\ call_next_calls = 1

\* C10: delete_college on an active college only clears is_active (the row
\* stays retrievable, every other field and every other college is unchanged);
\* on a missing or inactive id it raises 404 "College not found" and changes
\* nothing; so list_colleges returns exactly the colleges created and not yet
\* deleted, and a second delete_college of the same id fails with 404.
C10_ListedAreCreatedNotDeleted ==
    LET listed == list_colleges(colleges)
    IN  /\ {listed[i].id : i \in 1..Len(listed)} = created \ deleted
        /\ Len(listed) = Cardinality(created \ deleted)
        /\ \A id \in created : get_college(colleges, id) # NoCollege

C10_DeleteStep ==
    /\ (last_op'.op = "delete_college")
        => LET id     == last_op'.arg
               before == get_college(colleges, id)
               after  == get_college(colleges', id)
           IN  IF before # NoCollege /\ before.is_active
               THEN /\ last_op'.outcome = "returned"
                    /\ after = [before EXCEPT !.is_active = FALSE]
                    /\ Len(colleges') = Len(colleges)
                    /\ \A i \in 1..Len(colleges) :
                           colleges[i].id # id => colleges'[i] = colleges[i]
               ELSE /\ last_op'.outcome = "HTTPException"
                    /\ last_op'.status_code = 404
                    /\ last_op'.detail = "College not found"
                    /\ colleges' = colleges
                    /\ deleted' = deleted
       /\ (last_op'.op = "delete_college" /\ last_op'.arg \in deleted)
            => (last_op'.outcome = "HTTPException"
                /\ last_op'.status_code = 404)

C10_SoftDelete ==
    [](C10_ListedAreCreatedNotDeleted) /\ [][C10_DeleteStep]_vars

C10_Witness ==
    /\ last_op.op = "delete_college"
    /\ last_op.outcome = "HTTPException"
    /\ last_op.arg \in deleted
    /\ get_college(colleges, last_op.arg) # NoCollege
    /\ ~get_college(colleges, last_op.arg).is_active
    /\ Len(list_colleges(colleges)) >= 1

====
